---- MODULE Spec2Model ----
(***************************************************************************)
(* Model of the Arduino sketch 06_LED_Blink_SW.ino: a polled push button   *)
(* (readSwitch), a mode flag with a step counter (updateState) and three   *)
(* LED outputs (outputLEDs), run in that order by loop().                  *)
(*                                                                         *)
(* Time.  millis() is an unsigned long that wraps; the sketch only ever    *)
(* subtracts two readings, modulo the word size.  The model keeps that     *)
(* modular arithmetic but wraps the counter at ClockMod instead of 2^32,  *)
(* so that wrap-around is reached.  `clock' is the value returned by the   *)
(* latest millis() call; every call returns the previous value plus a      *)
(* non-negative amount chosen by the environment.                          *)
(*                                                                         *)
(* Specifications:                                                         *)
(*   Spec     the whole sketch, readSwitch() as written, millisecond       *)
(*            resolution, up to MaxTime ms after power-up;                 *)
(*   SpecSeq  loop() with the value returned by readSwitch() left free,    *)
(*            time on a grid of Grain ms, wrapping (SpecSeqFair adds the   *)
(*            fairness of the polling loop and of the advancing timer).    *)
(*   SpecAll  SpecSeq where an iteration may also run readSwitch() as       *)
(*            written, polled with no time passing.                        *)
(***************************************************************************)
EXTENDS Integers, Naturals, Sequences, FiniteSets, TLC

\* ---------------------------------------------------------------- bounds
MaxTime == 60        \* Spec: horizon of the whole-sketch runs, in ms
MaxJitter == 1       \* ms that can pass between two adjacent millis() calls
Grain == 50          \* SpecSeq: time grid, in ms
WrapTicks == 24      \* SpecSeq: the clock wraps after WrapTicks grid steps

ClockMod == Grain * WrapTicks
SwDeltas == {0, 1, 10, 21}      \* Spec: ms between two polls of the switch
SeqTicks == {0, 1, 6, 13}       \* SpecSeq: grid steps between two iterations
Gaps == {0, Grain}              \* ms before a millis() call in updateState

\* ------------------------------------------------------ program constants
HIGH == TRUE
LOW == FALSE
DEBOUNCE_MS == 20
STEP_OFF == 0
STEP_LED1 == 1
STEP_LED2 == 2
STEP_LED3 == 3
STEP_ALL == 4
LED_INTERVAL_MS == 300

VARIABLES
  clock,        \* value returned by the latest millis() call
  mode, lastSwState, lastSwTime, ledTimer, stepIndex,   \* the sketch's globals
  led1, led2, led3,   \* levels last written to LED1_PIN, LED2_PIN, LED3_PIN
  pc,           \* the statement of loop() to run next
  swPressed,    \* loop()'s local: the value readSwitch() returned
  run,          \* history: the current run of consecutive LOW polls
  done,         \* history: the last completed run of LOW polls
  seenHigh,     \* history: some poll has read HIGH
  prevMode, prevStep,   \* history: mode, stepIndex on entry to updateState
  stepped,      \* history: the last updateState call advanced stepIndex
  mark,         \* history: time of the last accepted press or step advance
  sinceMark,    \* history: time since mark at the last interval test
  before        \* history: mode before each of the last two accepted presses

swVars == <<lastSwState, lastSwTime, run, done, seenHigh>>
seqVars == <<mode, ledTimer, stepIndex, prevMode, prevStep, stepped, mark,
             sinceMark, before>>
ledVars == <<led1, led2, led3>>
vars == <<clock, pc, swPressed, swVars, seqVars, ledVars>>

\* unsigned arithmetic on millis() values
Add(t, d) == (t + d) % ClockMod
Sub(a, b) == (a - b + ClockMod) % ClockMod

Min(a, b) == IF a < b THEN a ELSE b

NoRun == [on |-> FALSE, start |-> 0, dur |-> 0, hits |-> 0,
          afterHigh |-> FALSE, mode0 |-> FALSE]
NoPress == [valid |-> FALSE, dur |-> 0, hits |-> 0, afterHigh |-> FALSE,
            toggled |-> FALSE]

Init ==
  /\ clock = 0
  /\ mode = FALSE
  /\ lastSwState = HIGH
  /\ lastSwTime = 0
  /\ ledTimer = 0
  /\ stepIndex = STEP_OFF
  /\ led1 = LOW /\ led2 = LOW /\ led3 = LOW
  /\ pc = "read"
  /\ swPressed = FALSE
  /\ run = NoRun
  /\ done = NoPress
  /\ seenHigh = FALSE
  /\ prevMode = FALSE
  /\ prevStep = STEP_OFF
  /\ stepped = FALSE
  /\ mark = 0
  /\ sinceMark = 0
  /\ before = << >>

\* loop(): readSwitch(), then updateState(), then outputLEDs(), then again
After_OutputFirst(p) ==
  CASE p = "read" -> "output"
    [] p = "output" -> "update"
    [] p = "update" -> "read"

After(p) ==
  CASE p = "read" -> "update"
    [] p = "update" -> "output"
    [] p = "output" -> "read"

\* readSwitch(): the debounce decision, given lastSwState, the level just
\* read and millis() - lastSwTime
Pressed_NoDebounce(last, now, elapsed) ==
  last = HIGH /\ now = LOW

Pressed_Level(last, now, elapsed) ==
  elapsed > DEBOUNCE_MS /\ now = LOW

Pressed(last, now, elapsed) ==
  elapsed > DEBOUNCE_MS /\ (last = HIGH /\ now = LOW)

\* history of the polls: runs of consecutive LOW readings
RunAfter(level, t, pressed) ==
  IF level = LOW
    THEN IF run.on
           THEN [run EXCEPT !.dur = Min(Sub(t, run.start), DEBOUNCE_MS + 1),
                            !.hits = Min(run.hits + (IF pressed THEN 1 ELSE 0), 2)]
           ELSE [on |-> TRUE, start |-> t, dur |-> 0,
                 hits |-> IF pressed THEN 1 ELSE 0,
                 afterHigh |-> seenHigh, mode0 |-> mode]
    ELSE NoRun

DoneAfter(level) ==
  IF level = LOW
    THEN IF run.on THEN done ELSE NoPress
    ELSE IF run.on
           THEN [valid |-> TRUE, dur |-> run.dur, hits |-> run.hits,
                 afterHigh |-> run.afterHigh, toggled |-> (mode # run.mode0)]
           ELSE done

\* readSwitch() reading `level', d ms after the previous millis() call, with
\* j ms between its own two millis() calls
ReadSwitchAt(level, d, j) ==
  /\ pc = "read"
  /\   LET t75 == Add(clock, d)
           t81 == Add(t75, j)
           stamp == IF level # lastSwState THEN t75 ELSE lastSwTime
           pressed == Pressed(lastSwState, level, Sub(t81, stamp))
       IN /\ clock + d + j <= MaxTime
          /\ lastSwTime' = stamp
          /\ lastSwState' = level
          /\ swPressed' = pressed
          /\ clock' = t81
          /\ run' = RunAfter(level, t75, pressed)
          /\ done' = DoneAfter(level)
          /\ seenHigh' = (seenHigh \/ level = HIGH)
  /\ pc' = After(pc)
  /\ UNCHANGED <<seqVars, ledVars>>

ReadSwitch ==
  \E level \in BOOLEAN, d \in SwDeltas, j \in 0..MaxJitter :
    ReadSwitchAt(level, d, j)

\* loop() with the result of readSwitch() as a free input: k grid steps of
\* time pass before the iteration, readSwitch() returns r
Poll(k, r) ==
  /\ pc = "read"
  /\ clock' = Add(clock, Grain * k)
  /\ swPressed' = r
  /\ pc' = After(pc)
  /\ UNCHANGED <<swVars, seqVars, ledVars>>

PollAny == \E k \in SeqTicks, r \in BOOLEAN : Poll(k, r)

\* updateState(): the pieces
Toggle_On(m) == TRUE

Toggle(m) == ~m

ModeAfter_Always(m, pressed) == Toggle(m)

ModeAfter(m, pressed) == IF pressed THEN Toggle(m) ELSE m

IntervalElapsed_Strict(now, timer) == Sub(now, timer) > LED_INTERVAL_MS

IntervalElapsed(now, timer) == Sub(now, timer) >= LED_INTERVAL_MS

NextStep_NoWrap(s) == s + 1

NextStep_Early(s) == IF s + 1 >= STEP_ALL THEN STEP_OFF ELSE s + 1

NextStep_Stuck(s) == IF s + 1 > STEP_ALL THEN STEP_ALL ELSE s + 1

NextStep(s) == IF s + 1 > STEP_ALL THEN STEP_OFF ELSE s + 1

\* updateState(): the step advances only in the lit mode, once the interval
\* has elapsed
StepDue_AnyMode(m, now, timer) == IntervalElapsed(now, timer)

StepDue(m, now, timer) == m /\ IntervalElapsed(now, timer)

UpdateState ==
  /\ pc = "update"
  /\ \E g1 \in Gaps, g2 \in Gaps :
       LET t107 == Add(clock, g1)
           m1 == ModeAfter(mode, swPressed)
           s1 == IF swPressed THEN STEP_OFF ELSE stepIndex
           T1 == IF swPressed THEN t107 ELSE ledTimer
           c1 == IF swPressed THEN t107 ELSE clock
           k1 == IF swPressed THEN t107 ELSE mark
           t112 == Add(c1, g2)
           due == StepDue(m1, t112, T1)
       IN /\ mode' = m1
          /\ stepIndex' = IF due THEN NextStep(s1) ELSE s1
          /\ ledTimer' = IF due THEN t112 ELSE T1
          /\ clock' = IF m1 THEN t112 ELSE c1
          /\ stepped' = due
          /\ sinceMark' = IF m1 THEN Sub(t112, k1) ELSE 0
          /\ mark' = IF due THEN t112 ELSE k1
  /\ prevMode' = mode
  /\ prevStep' = stepIndex
  /\ before' = IF swPressed
                 THEN IF Len(before) = 2 THEN <<before[2], mode>>
                                         ELSE Append(before, mode)
                 ELSE before
  /\ pc' = After(pc)
  /\ UNCHANGED <<swPressed, swVars, ledVars>>

\* outputLEDs(): the three step tests
Led1On(s) == s = STEP_LED1 \/ s = STEP_ALL

Led2On(s) == s = STEP_LED2 \/ s = STEP_ALL

Led3On_CopyPaste(s) == s = STEP_LED2 \/ s = STEP_ALL

Led3On(s) == s = STEP_LED3 \/ s = STEP_ALL

OutputLEDs_NoOff ==
  /\ pc = "output"
  /\ IF ~mode
       THEN UNCHANGED ledVars
       ELSE /\ led1' = (IF Led1On(stepIndex) THEN HIGH ELSE LOW)
            /\ led2' = (IF Led2On(stepIndex) THEN HIGH ELSE LOW)
            /\ led3' = (IF Led3On(stepIndex) THEN HIGH ELSE LOW)
  /\ pc' = After(pc)
  /\ UNCHANGED <<clock, swPressed, swVars, seqVars>>

OutputLEDs ==
  /\ pc = "output"
  /\ IF ~mode
       THEN /\ led1' = LOW
            /\ led2' = LOW
            /\ led3' = LOW
       ELSE /\ led1' = (IF Led1On(stepIndex) THEN HIGH ELSE LOW)
            /\ led2' = (IF Led2On(stepIndex) THEN HIGH ELSE LOW)
            /\ led3' = (IF Led3On(stepIndex) THEN HIGH ELSE LOW)
  /\ pc' = After(pc)
  /\ UNCHANGED <<clock, swPressed, swVars, seqVars>>

Next == ReadSwitch \/ UpdateState \/ OutputLEDs

Spec == Init /\ [][Next]_vars

NextSeq == PollAny \/ UpdateState \/ OutputLEDs

SpecSeq == Init /\ [][NextSeq]_vars

\* loop() where each iteration either runs readSwitch() as written (polled
\* with no time passing) or takes its result as a free input
NextAll ==
  \/ \E level \in BOOLEAN : ReadSwitchAt(level, 0, 0)
  \/ PollAny
  \/ UpdateState
  \/ OutputLEDs

SpecAll == Init /\ [][NextAll]_vars

\* the loop keeps running and millis() keeps advancing
SpecSeqFair ==
  /\ SpecSeq
  /\ WF_vars(UpdateState)
  /\ WF_vars(OutputLEDs)
  /\ SF_vars(\E k \in SeqTicks \ {0}, r \in BOOLEAN : Poll(k, r))


\* ------------------------------------------------------------------ claims

AllOff == led1 = LOW /\ led2 = LOW /\ led3 = LOW

\* the LED levels that the step definitions prescribe for step s
Shows(s) ==
  /\ led1 = (IF s \in {STEP_LED1, STEP_ALL} THEN HIGH ELSE LOW)
  /\ led2 = (IF s \in {STEP_LED2, STEP_ALL} THEN HIGH ELSE LOW)
  /\ led3 = (IF s \in {STEP_LED3, STEP_ALL} THEN HIGH ELSE LOW)

\* the fixed cyclic order of the steps
CycleNext(s) ==
  CASE s = STEP_OFF -> STEP_LED1
    [] s = STEP_LED1 -> STEP_LED2
    [] s = STEP_LED2 -> STEP_LED3
    [] s = STEP_LED3 -> STEP_ALL
    [] s = STEP_ALL -> STEP_OFF

\* C1: a press is accepted: when the switch was read HIGH and then LOW on
\* every poll for longer than DEBOUNCE_MS, readSwitch() returned true on some
\* iteration of that press and mode was flipped.
C1_PressAccepted ==
  (done.valid /\ done.afterHigh /\ done.dur > DEBOUNCE_MS)
    => (done.hits >= 1 /\ done.toggled)

\* C2: debounce safety: readSwitch() returns true only after LOW has been read
\* on every poll for more than DEBOUNCE_MS, and a LOW pulse of DEBOUNCE_MS or
\* less between HIGH readings neither makes it return true nor changes mode.
C2_DebounceSafe ==
  /\ (pc = "update" /\ swPressed) => (run.on /\ run.dur > DEBOUNCE_MS)
  /\ (done.valid /\ done.dur <= DEBOUNCE_MS)
       => (done.hits = 0 /\ ~done.toggled)

C2_Witness ==
  /\ done.valid /\ done.afterHigh
  /\ done.dur > 0 /\ done.dur <= DEBOUNCE_MS
  /\ done.hits = 0 /\ ~done.toggled
  /\ lastSwState = HIGH /\ pc = "read"

\* C3: readSwitch() returns true only while the switch reads LOW and at most
\* once per press: within one run of LOW polls it never returns true twice.
C3_OncePerPress ==
  /\ (pc = "update" /\ swPressed) => (lastSwState = LOW /\ run.on)
  /\ run.hits <= 1
  /\ done.hits <= 1
  /\ (done.valid /\ done.toggled) => done.hits = 1

C3_Witness ==
  /\ run.on /\ run.afterHigh /\ run.dur > DEBOUNCE_MS
  /\ run.hits <= 1 /\ pc = "output" /\ ~swPressed

\* C4: while mode is true and no press is accepted, stepIndex either stays or
\* moves to the next step of the cycle OFF -> LED1 -> LED2 -> LED3 -> ALL ->
\* OFF: one step at most per iteration, whatever time has elapsed.
C4_OneStepInOrder ==
  [][(mode /\ ~(pc = "update" /\ swPressed))
       => (stepIndex' = stepIndex \/ stepIndex' = CycleNext(stepIndex))]_vars

C4_Witness ==
  /\ pc = "output" /\ mode /\ ~swPressed /\ stepped
  /\ sinceMark >= 2 * LED_INTERVAL_MS
  /\ stepIndex = CycleNext(prevStep)

\* C5: in the lit mode an iteration advances stepIndex iff at least
\* LED_INTERVAL_MS has elapsed since the previous advance or the press that
\* entered the lit mode, and ledTimer holds that time.
C5_FixedInterval ==
  /\ (pc = "output" /\ mode) => (stepped <=> sinceMark >= LED_INTERVAL_MS)
  /\ mode => ledTimer = mark
  /\ ~mode => ~stepped

C5_Witness ==
  /\ pc = "output" /\ mode /\ stepped /\ sinceMark = LED_INTERVAL_MS
  /\ prevStep = STEP_OFF /\ stepIndex = STEP_LED1

\* C6: when mode is false all three LEDs are off at the end of the iteration
\* (and until outputLEDs() next runs), whatever stepIndex and ledTimer are;
\* from power-up until the first accepted press they stay off.
C6_OffWhenUnlit ==
  /\ (~mode /\ pc # "output") => AllOff
  /\ (before = << >>) => AllOff

C6_Witness ==
  /\ pc = "read" /\ ~mode /\ swPressed /\ prevMode /\ prevStep = STEP_ALL
  /\ AllOff /\ ledTimer # 0

\* C7: when mode is true, after outputLEDs() each LED is HIGH exactly on its
\* own step and on STEP_ALL.
C7_StepPattern ==
  (pc = "read" /\ mode) =>
    /\ led1 = HIGH <=> (stepIndex = STEP_LED1 \/ stepIndex = STEP_ALL)
    /\ led2 = HIGH <=> (stepIndex = STEP_LED2 \/ stepIndex = STEP_ALL)
    /\ led3 = HIGH <=> (stepIndex = STEP_LED3 \/ stepIndex = STEP_ALL)

C7_Witness ==
  /\ pc = "read" /\ mode /\ stepIndex = STEP_LED3
  /\ led1 = LOW /\ led2 = LOW /\ led3 = HIGH

\* C8: updateState(true) negates mode, sets stepIndex to STEP_OFF and ledTimer
\* to the time it read; two accepted presses in a row restore mode.
C8_PressRestarts ==
  /\ (pc = "output" /\ swPressed) =>
       /\ mode = ~prevMode
       /\ stepIndex = STEP_OFF
       /\ Sub(clock, ledTimer) \in Gaps
  /\ Len(before) = 2 => mode = before[1]

C8_Witness ==
  /\ pc = "output" /\ swPressed /\ prevMode /\ prevStep = STEP_LED2
  /\ ~mode /\ stepIndex = STEP_OFF /\ Len(before) = 2

\* C9: once mode is true and no press is accepted any more, stepIndex keeps
\* advancing and each of the five patterns is shown on the LEDs again and
\* again.
C9_AnimationLive ==
  (<>[](mode /\ ~swPressed)) =>
    /\ []<>(pc = "output" /\ stepped)
    /\ \A s \in {STEP_OFF, STEP_LED1, STEP_LED2, STEP_LED3, STEP_ALL} :
         []<>(pc = "read" /\ stepIndex = s /\ Shows(s))

C9_Witness ==
  /\ pc = "read" /\ mode /\ ~swPressed /\ stepped
  /\ prevStep = STEP_ALL /\ stepIndex = STEP_OFF /\ AllOff

\* C10: the LEDs at the end of an iteration show the mode and stepIndex that
\* the same iteration produced: an accepted press or a step advance is on the
\* LEDs when the iteration ends.
C10_SameIteration ==
  /\ (pc = "read" /\ (swPressed \/ stepped)) =>
       IF mode THEN Shows(stepIndex) ELSE AllOff
  /\ (pc = "read" /\ swPressed /\ prevMode) => AllOff

C10_Witness ==
  /\ pc = "read" /\ stepped /\ mode /\ stepIndex = STEP_ALL
  /\ led1 = HIGH /\ led2 = HIGH /\ led3 = HIGH

\* C11: stepIndex stays in range: whenever outputLEDs() is about to run and at
\* the end of every iteration, STEP_OFF <= stepIndex <= STEP_ALL.
C11_StepInRange ==
  (pc = "output" \/ pc = "read") =>
    (STEP_OFF <= stepIndex /\ stepIndex <= STEP_ALL)

C11_Witness ==
  /\ pc = "output" /\ mode /\ stepped
  /\ prevStep = STEP_ALL /\ stepIndex = STEP_OFF

\* C12: whenever mode is false, stepIndex is STEP_OFF: the step counter never
\* advances and never keeps a stale value in the unlit mode.
C12_UnlitStepOff ==
  ~mode => stepIndex = STEP_OFF

C12_Witness ==
  /\ pc = "output" /\ swPressed /\ prevMode /\ prevStep = STEP_LED3
  /\ ~mode /\ stepIndex = STEP_OFF /\ ~stepped

\* C13: mode changes only on an accepted press: over an iteration mode differs
\* only if readSwitch() returned true; readSwitch() leaves mode, stepIndex,
\* ledTimer and the LEDs alone, updateState(false) leaves mode alone (and
\* stepIndex and ledTimer too when mode is false), outputLEDs() changes no
\* program variable.
C13_ModeFrame ==
  [][/\ mode' # mode => (pc = "update" /\ swPressed)
     /\ pc = "read" =>
          UNCHANGED <<mode, stepIndex, ledTimer, led1, led2, led3>>
     /\ (pc = "update" /\ ~swPressed) =>
          /\ mode' = mode
          /\ ~mode => UNCHANGED <<stepIndex, ledTimer>>
     /\ pc = "output" =>
          UNCHANGED <<mode, lastSwState, lastSwTime, ledTimer, stepIndex>>
     /\ (pc' = "read" /\ mode' # prevMode') => swPressed']_vars

C13_Witness ==
  /\ pc = "read" /\ swPressed /\ mode /\ ~prevMode
  /\ lastSwState = LOW /\ lastSwTime # 0 /\ Len(before) = 2
====
